---- MODULE Spec2Model ----
(***************************************************************************)
(* Model of the two one-shot cleanup scripts of the repository:            *)
(*   util/drop_dop_tables/drop_dop_tables.py            (drop_tables)      *)
(*   util/jenkins/retired_user_cert_remover/retired_user_cert_remover.py   *)
(*                                                       (controller)      *)
(* One run of the process executes exactly one of the two scripts; the     *)
(* variable script says which.  The database and the object store are the  *)
(* environment: every call into them may raise, and what a query returns   *)
(* is drawn from small sets.                                               *)
(***************************************************************************)
EXTENDS Integers, Sequences, FiniteSets

VARIABLES
    script,         \* which entry point this run executes
    dry_run,        \* the --dry-run flag
    pc,             \* position of the run
    lastActivity,   \* database metadata: table -> <<>> (no row / NULL) or <<timestamp>>
    checked,        \* number of tables the guard loop has gone past
    tables_activity,\* what check_all_tables_before_proceeding returned: "none", "True", "False"
    blockedBy,      \* table named in the "Skipping all operations" log line, or "none"
    fkRan,          \* (table, referenced table) pairs for which drop_foreign_key returned
    dropRan,        \* tables for which drop_table returned
    nAlter,         \* ALTER TABLE ... DROP FOREIGN KEY statements issued
    nDrop,          \* DROP TABLE IF EXISTS statements issued
    nCommit,        \* connection.commit() calls that returned
    connection,     \* "none", "open", "closed"
    loggedSuccess,  \* "Database cleanup completed successfully." was logged
    loggedError,    \* "An error occurred: ..." was logged
    certificates,   \* rows returned by fetch_certificates_to_delete
    ci,             \* index of the certificate row the loop is at
    step,           \* which delete of the row is next: "verify" or "download"
    tries,          \* attempts made by the current (or last) S3BotoWrapper.delete_object call
    s3calls,        \* S3BotoWrapper.delete_object calls issued, with their outcome
    dryLog,         \* keys named in "[Dry Run] Would delete ..." log lines
    errorLog        \* rows for which "Error deleting ..." was logged

dropVars == <<lastActivity, checked, tables_activity, blockedBy, fkRan, dropRan,
              nAlter, nDrop, nCommit, connection, loggedSuccess, loggedError>>
certVars == <<certificates, ci, step, tries, s3calls, dryLog, errorLog>>
vars == <<script, dry_run, pc, dropVars, certVars>>

(***************************************************************************)
(* Bounds of the model.                                                    *)
(***************************************************************************)
\* the clock reading of datetime.now(), in the unit of the timestamps
Now == 1000
\* how many tables of the database have metadata other than "long inactive"
MaxActive == 2
\* how many rows the certificate query returns at most
MaxCerts == 2

(***************************************************************************)
(* drop_dop_tables.py: constants.                                          *)
(***************************************************************************)
TABLES_TO_DROP ==
    << "third_party_auth_providerapipermissions",
       "oauth2_provider_trustedclient",
       "oauth2_grant",
       "oauth2_accesstoken",
       "oauth2_refreshtoken",
       "oauth_provider_token",
       "oauth_provider_consumer",
       "oauth2_client",
       "oauth_provider_scope",
       "oauth_provider_nonce" >>

\* FK_DEPENDENCIES as the list of its items, in the dict's insertion order
FK_DEPENDENCIES ==
    << <<"third_party_auth_providerapipermissions", <<"oauth2_client">> >>,
       <<"oauth2_provider_trustedclient", <<"oauth2_client">> >>,
       <<"oauth2_grant", <<"oauth2_client", "auth_user">> >>,
       <<"oauth2_accesstoken", <<"oauth2_client", "auth_user">> >>,
       <<"oauth2_refreshtoken", <<"oauth2_accesstoken", "oauth2_client", "auth_user">> >>,
       <<"oauth_provider_token",
         <<"oauth_provider_consumer", "oauth_provider_scope", "auth_user">> >>,
       <<"oauth_provider_consumer", <<"auth_user">> >> >>

\* timedelta(days=365)
Days == 365

Range(s) == {s[i] : i \in 1..Len(s)}

Tables == Range(TABLES_TO_DROP)

RECURSIVE PairsFrom(_)
\* the (table, referenced_table) pairs in the order the nested loops of
\* drop_tables visit them
PairsFrom(items) ==
    IF items = <<>> THEN <<>>
    ELSE [k \in 1..Len(Head(items)[2]) |-> <<Head(items)[1], Head(items)[2][k]>>]
         \o PairsFrom(Tail(items))

FKPairs == PairsFrom(FK_DEPENDENCIES)

\* the tables FK_DEPENDENCIES says table t holds a foreign key against
References(t) ==
    UNION {Range(FK_DEPENDENCIES[i][2]) : i \in {j \in 1..Len(FK_DEPENDENCIES) :
                                                    FK_DEPENDENCIES[j][1] = t}}


(***************************************************************************)
(* The database the script is pointed at: what information_schema.tables   *)
(* holds for each table of TABLES_TO_DROP.  <<>> is "no row, or NULL";     *)
(* <<ts>> is a last-activity timestamp.                                    *)
(***************************************************************************)
\* datetime.now() - timedelta(days=365)
one_year_ago == Now - Days

LongInactive == <<one_year_ago - 1>>

OtherActivity == { <<>>, <<one_year_ago>>, <<one_year_ago + 1>> }

\* every table long inactive, except at most MaxActive of them
ActivityConfigs ==
    { [t \in Tables |-> IF t \in S THEN g[t] ELSE LongInactive] :
        <<S, g>> \in UNION { {<<S1, g1>> : g1 \in [S1 -> OtherActivity]} :
                             S1 \in {S2 \in SUBSET Tables : Cardinality(S2) <= MaxActive} } }

\* the value get_last_activity_date returns for a table: None is <<>>
get_last_activity_date(table_name) == lastActivity[table_name]

\* variant: compares with >=
IsRecentInclusive(last_activity) ==
    last_activity # <<>> /\ last_activity[1] >= one_year_ago

\* `last_activity and last_activity > one_year_ago`
IsRecent(last_activity) ==
    last_activity # <<>> /\ last_activity[1] > one_year_ago

(***************************************************************************)
(* drop_tables                                                             *)
(***************************************************************************)
\* an exception anywhere inside the try block: `except Exception as e`
Raise ==
    /\ loggedError' = TRUE
    /\ pc' = "done"

\* connect_to_db
Connect ==
    /\ script = "drop_tables"
    /\ pc = "start"
    /\ \/ /\ connection' = "open"
          /\ pc' = "guard"
          /\ UNCHANGED loggedError
       \/ /\ Raise
          /\ UNCHANGED connection
    /\ UNCHANGED <<script, dry_run, lastActivity, checked, tables_activity, blockedBy,
                   fkRan, dropRan, nAlter, nDrop, nCommit, loggedSuccess, certVars>>

\* one iteration of the loop of check_all_tables_before_proceeding
CheckTable ==
    /\ pc = "guard"
    /\ checked < Len(TABLES_TO_DROP)
    /\ LET table == TABLES_TO_DROP[checked + 1]
           last_activity == get_last_activity_date(table)
       IN  \/ /\ IsRecent(last_activity)
              /\ blockedBy' = table
              /\ tables_activity' = "False"
              /\ pc' = "branch"
              /\ UNCHANGED <<checked, loggedError>>
           \/ /\ ~IsRecent(last_activity)
              /\ checked' = checked + 1
              /\ UNCHANGED <<blockedBy, tables_activity, pc, loggedError>>
           \/ /\ Raise
              /\ UNCHANGED <<checked, blockedBy, tables_activity>>
    /\ UNCHANGED <<script, dry_run, lastActivity, fkRan, dropRan, nAlter, nDrop, nCommit,
                   connection, loggedSuccess, certVars>>

\* the loop of check_all_tables_before_proceeding ran out: return True
GuardProceed ==
    /\ pc = "guard"
    /\ checked = Len(TABLES_TO_DROP)
    /\ tables_activity' = "True"
    /\ pc' = "branch"
    /\ UNCHANGED <<script, dry_run, lastActivity, checked, blockedBy, fkRan, dropRan,
                   nAlter, nDrop, nCommit, connection, loggedSuccess, loggedError,
                   certVars>>

\* variant: goes on whatever the guard returned
BranchAlways ==
    /\ pc = "branch"
    /\ pc' = "fk"
    /\ UNCHANGED <<script, dry_run, dropVars, certVars>>

\* `if tables_activity:` in drop_tables
Branch ==
    /\ pc = "branch"
    /\ pc' = IF tables_activity = "True" THEN "fk" ELSE "done"
    /\ UNCHANGED <<script, dry_run, dropVars, certVars>>

\* variant: leaves the foreign-key loops after the first pair
FKLoopExitEarly(n) == n >= 1

\* the nested loops over FK_DEPENDENCIES.items() have visited every pair
FKLoopExit(n) == n = Len(FKPairs)

\* drop_foreign_key for the next (table, referenced_table) pair
DropForeignKey ==
    /\ pc = "fk"
    /\ \/ \* the INFORMATION_SCHEMA lookup finds no constraint
          /\ fkRan' = Append(fkRan, FKPairs[Len(fkRan) + 1])
          /\ pc' = IF FKLoopExit(Len(fkRan')) THEN "drop" ELSE "fk"
          /\ UNCHANGED <<nAlter, nCommit, loggedError>>
       \/ \* a constraint is found, dry run: log only
          /\ dry_run
          /\ fkRan' = Append(fkRan, FKPairs[Len(fkRan) + 1])
          /\ pc' = IF FKLoopExit(Len(fkRan')) THEN "drop" ELSE "fk"
          /\ UNCHANGED <<nAlter, nCommit, loggedError>>
       \/ \* a constraint is found: ALTER TABLE ... DROP FOREIGN KEY, commit
          /\ ~dry_run
          /\ nAlter' = nAlter + 1
          /\ nCommit' = nCommit + 1
          /\ fkRan' = Append(fkRan, FKPairs[Len(fkRan) + 1])
          /\ pc' = IF FKLoopExit(Len(fkRan')) THEN "drop" ELSE "fk"
          /\ UNCHANGED loggedError
       \/ \* the lookup raises
          /\ Raise
          /\ UNCHANGED <<nAlter, nCommit, fkRan>>
       \/ \* the ALTER TABLE is issued and it, or the commit, raises
          /\ ~dry_run
          /\ nAlter' = nAlter + 1
          /\ Raise
          /\ UNCHANGED <<nCommit, fkRan>>
    /\ UNCHANGED <<script, dry_run, lastActivity, checked, tables_activity, blockedBy,
                   dropRan, nDrop, connection, loggedSuccess, certVars>>

\* variant: logs the exception of a drop and goes on with the next table
DropTableSwallow ==
    /\ pc = "drop"
    /\ \/ /\ dry_run
          /\ UNCHANGED <<nDrop, nCommit, loggedError>>
       \/ /\ ~dry_run
          /\ nDrop' = nDrop + 1
          /\ nCommit' = nCommit + 1
          /\ UNCHANGED loggedError
       \/ /\ ~dry_run
          /\ nDrop' = nDrop + 1
          /\ loggedError' = TRUE
          /\ UNCHANGED nCommit
    /\ dropRan' = Append(dropRan, TABLES_TO_DROP[Len(dropRan) + 1])
    /\ pc' = IF Len(dropRan') = Len(TABLES_TO_DROP) THEN "close" ELSE "drop"
    /\ UNCHANGED <<script, dry_run, lastActivity, checked, tables_activity, blockedBy,
                   fkRan, nAlter, connection, loggedSuccess, certVars>>

\* variant: executes the DROP TABLE under dry-run too
DropTableNoDryRun ==
    /\ pc = "drop"
    /\ \/ /\ nDrop' = nDrop + 1
          /\ nCommit' = nCommit + 1
          /\ dropRan' = Append(dropRan, TABLES_TO_DROP[Len(dropRan) + 1])
          /\ pc' = IF Len(dropRan') = Len(TABLES_TO_DROP) THEN "close" ELSE "drop"
          /\ UNCHANGED loggedError
       \/ /\ nDrop' = nDrop + 1
          /\ Raise
          /\ UNCHANGED <<nCommit, dropRan>>
    /\ UNCHANGED <<script, dry_run, lastActivity, checked, tables_activity, blockedBy,
                   fkRan, nAlter, connection, loggedSuccess, certVars>>

\* drop_table for the next table of TABLES_TO_DROP
DropTable ==
    /\ pc = "drop"
    /\ \/ \* dry run: log only
          /\ dry_run
          /\ dropRan' = Append(dropRan, TABLES_TO_DROP[Len(dropRan) + 1])
          /\ pc' = IF Len(dropRan') = Len(TABLES_TO_DROP) THEN "close" ELSE "drop"
          /\ UNCHANGED <<nDrop, nCommit, loggedError>>
       \/ \* DROP TABLE IF EXISTS, commit
          /\ ~dry_run
          /\ nDrop' = nDrop + 1
          /\ nCommit' = nCommit + 1
          /\ dropRan' = Append(dropRan, TABLES_TO_DROP[Len(dropRan) + 1])
          /\ pc' = IF Len(dropRan') = Len(TABLES_TO_DROP) THEN "close" ELSE "drop"
          /\ UNCHANGED loggedError
       \/ \* the DROP TABLE is issued and it, or the commit, raises
          /\ ~dry_run
          /\ nDrop' = nDrop + 1
          /\ Raise
          /\ UNCHANGED <<nCommit, dropRan>>
    /\ UNCHANGED <<script, dry_run, lastActivity, checked, tables_activity, blockedBy,
                   fkRan, nAlter, connection, loggedSuccess, certVars>>

\* connection.close() and the final log line
Close ==
    /\ pc = "close"
    /\ \/ /\ connection' = "closed"
          /\ loggedSuccess' = TRUE
          /\ pc' = "done"
          /\ UNCHANGED loggedError
       \/ /\ Raise
          /\ UNCHANGED <<connection, loggedSuccess>>
    /\ UNCHANGED <<script, dry_run, lastActivity, checked, tables_activity, blockedBy,
                   fkRan, dropRan, nAlter, nDrop, nCommit, certVars>>

(***************************************************************************)
(* retired_user_cert_remover.py                                            *)
(***************************************************************************)
MAX_TRIES == 5

\* the bucket both delete_object calls name
Bucket == "verify.edx.org"

UUIDs == {"a", "b"}

\* a row of the query: LMS_USER_ID, COURSE_RUN_ID, CERTIFICATE_ID, CERTIFICATE_URL,
\* DOWNLOAD_UUID, VERIFY_UUID (Python index 0..5 is index 1..6 here)
CertRows == { <<7, "course", 3, "https://", d, v>> : d \in UUIDs, v \in UUIDs }

CertLists == UNION { [1..n -> CertRows] : n \in 0..MaxCerts }

\* variant: reads the download UUID for the verify key
verify_key_swapped(cert) == "cert/" \o cert[5]

\* verify_uuid = cert[5]; verify_key = f"cert/{verify_uuid}"
verify_key(cert) == "cert/" \o cert[6]

\* download_uuid = cert[4]; download_key = f"downloads/{download_uuid}/Certificate.pdf"
download_key(cert) == "downloads/" \o cert[5] \o "/Certificate.pdf"

\* variant: gives up one attempt later
GiveUpLate(n) == n = MAX_TRIES + 1

\* backoff.on_exception(backoff.expo, ClientError, max_tries=MAX_TRIES): the
\* n-th failed attempt is the last one
GiveUp(n) == n = MAX_TRIES

\* fetch_certificates_to_delete: the rows, or sys.exit(1) when the query fails
Fetch ==
    /\ script = "controller"
    /\ pc = "start"
    /\ \/ \E rows \in CertLists :
             /\ certificates' = rows
             /\ pc' = "loop"
       \/ /\ pc' = "exited"
          /\ UNCHANGED certificates
    /\ UNCHANGED <<script, dry_run, dropVars, ci, step, tries, s3calls, dryLog, errorLog>>

\* one iteration of the loop of delete_certificates_from_s3 under dry-run
DryRunRecord ==
    /\ pc = "loop"
    /\ ci <= Len(certificates)
    /\ dry_run
    /\ dryLog' = dryLog \o << [rec |-> ci, Key |-> verify_key(certificates[ci])],
                              [rec |-> ci, Key |-> download_key(certificates[ci])] >>
    /\ ci' = ci + 1
    /\ UNCHANGED <<script, dry_run, pc, dropVars, certificates, step, tries, s3calls,
                   errorLog>>

\* variant: goes to the next row after the first delete
AfterSuccessSkipDownload ==
    /\ step' = "verify"
    /\ ci' = ci + 1

\* a delete_object call returned: the next statement of the loop body
AfterSuccess ==
    IF step = "verify"
    THEN step' = "download" /\ ci' = ci
    ELSE step' = "verify" /\ ci' = ci + 1

\* variant: leaves the loop at the first failure
OnClientErrorAbort ==
    /\ errorLog' = Append(errorLog, ci)
    /\ step' = "verify"
    /\ ci' = ci
    /\ pc' = "done"

\* `except ClientError as e`: log, then the next iteration of the loop
OnClientError ==
    /\ errorLog' = Append(errorLog, ci)
    /\ step' = "verify"
    /\ ci' = ci + 1
    /\ pc' = "loop"

SetResult(calls, r) == [calls EXCEPT ![Len(calls)].result = r]

\* one attempt of the S3BotoWrapper.delete_object call the loop body is at; the
\* first attempt of a call issues the call
DeleteAttempt ==
    /\ pc = "loop"
    /\ ci <= Len(certificates)
    /\ ~dry_run
    /\ LET cert == certificates[ci]
           key == IF step = "verify" THEN verify_key(cert) ELSE download_key(cert)
           first == s3calls = <<>> \/ s3calls[Len(s3calls)].result # "pending"
           calls == IF first
                    THEN Append(s3calls, [rec |-> ci, Bucket |-> Bucket, Key |-> key,
                                          result |-> "pending"])
                    ELSE s3calls
           n == IF first THEN 1 ELSE tries + 1
       IN  /\ tries' = n
           /\ \/ \* client.delete_object returns
                 /\ s3calls' = SetResult(calls, "ok")
                 /\ AfterSuccess
                 /\ UNCHANGED <<pc, errorLog>>
              \/ \* ClientError, and backoff tries again
                 /\ ~GiveUp(n)
                 /\ s3calls' = calls
                 /\ UNCHANGED <<pc, ci, step, errorLog>>
              \/ \* ClientError on the last attempt: backoff re-raises it
                 /\ GiveUp(n)
                 /\ s3calls' = SetResult(calls, "ClientError")
                 /\ OnClientError
              \/ \* any other exception: not retried, not caught
                 /\ s3calls' = SetResult(calls, "raised")
                 /\ pc' = "crashed"
                 /\ UNCHANGED <<ci, step, errorLog>>
    /\ UNCHANGED <<script, dry_run, dropVars, certificates, dryLog>>

\* the loop of delete_certificates_from_s3 ran out: the function returns
FinishLoop ==
    /\ pc = "loop"
    /\ ci > Len(certificates)
    /\ pc' = "done"
    /\ UNCHANGED <<script, dry_run, dropVars, certVars>>

(***************************************************************************)
(* The run.                                                                *)
(***************************************************************************)
Init ==
    /\ script \in {"drop_tables", "controller"}
    /\ dry_run \in BOOLEAN
    /\ pc = "start"
    /\ lastActivity \in ActivityConfigs
    /\ script = "controller" => lastActivity = [t \in Tables |-> LongInactive]
    /\ checked = 0
    /\ tables_activity = "none"
    /\ blockedBy = "none"
    /\ fkRan = <<>>
    /\ dropRan = <<>>
    /\ nAlter = 0
    /\ nDrop = 0
    /\ nCommit = 0
    /\ connection = "none"
    /\ loggedSuccess = FALSE
    /\ loggedError = FALSE
    /\ certificates = <<>>
    /\ ci = 1
    /\ step = "verify"
    /\ tries = 0
    /\ s3calls = <<>>
    /\ dryLog = <<>>
    /\ errorLog = <<>>

Next ==
    \/ Connect
    \/ CheckTable
    \/ GuardProceed
    \/ Branch
    \/ DropForeignKey
    \/ DropTable
    \/ Close
    \/ Fetch
    \/ DryRunRecord
    \/ DeleteAttempt
    \/ FinishLoop

Spec == Init /\ [][Next]_vars

(***************************************************************************)
(* Properties.                                                             *)
(***************************************************************************)
\* the delete_object calls issued while the loop was at row j, in order
CallsFor(j) == SelectSeq(s3calls, LAMBDA c : c.rec = j)

\* the dry-run log lines written while the loop was at row j, in order
DryLinesFor(j) == SelectSeq(dryLog, LAMBDA l : l.rec = j)

\* the key templates written out for each UUID of the model
ExpectedVerifyKey(v) ==
    CASE v = "a" -> "cert/a"
      [] v = "b" -> "cert/b"

ExpectedDownloadKey(d) ==
    CASE d = "a" -> "downloads/a/Certificate.pdf"
      [] d = "b" -> "downloads/b/Certificate.pdf"

\* C1: once the guard has returned skip (False), no ALTER TABLE ... DROP FOREIGN KEY
\* and no DROP TABLE is issued in the run, neither foreign-key nor table step runs,
\* whatever dry_run is and wherever in the list the blocking table stands.
C1_SkipIssuesNothing ==
    tables_activity = "False" =>
        /\ nAlter = 0
        /\ nDrop = 0
        /\ nCommit = 0
        /\ fkRan = <<>>
        /\ dropRan = <<>>

\* a finished real run that the last table of the list blocked
C1_Witness ==
    /\ tables_activity = "False"
    /\ ~dry_run
    /\ pc = "done"
    /\ blockedBy = TABLES_TO_DROP[Len(TABLES_TO_DROP)]

\* C2: no constraint drop is issued once a table drop has been issued, and a table
\* drop is issued only after drop_foreign_key has returned for every pair of
\* FK_DEPENDENCIES with every statement issued before it committed.
C2_ConstraintsBeforeTables ==
    [][ /\ nAlter' > nAlter => nDrop = 0
        /\ nDrop' > nDrop => /\ fkRan = FKPairs
                             /\ nCommit = nAlter + nDrop ]_vars

\* a real run that dropped a constraint for every pair and then every table
C2_Witness ==
    /\ ~dry_run
    /\ nAlter = Len(FKPairs)
    /\ nDrop = Len(TABLES_TO_DROP)

\* C3: under dry_run no ALTER TABLE, no DROP TABLE and no commit is issued by
\* drop_tables, and no delete_object call by delete_certificates_from_s3.
C3_DryRunMutatesNothing ==
    dry_run =>
        /\ nAlter = 0
        /\ nDrop = 0
        /\ nCommit = 0
        /\ s3calls = <<>>

\* a dry run of drop_tables that went through both steps to the end
C3_Witness ==
    /\ dry_run
    /\ fkRan = FKPairs
    /\ dropRan = TABLES_TO_DROP
    /\ pc = "done"

\* C4: when drop_table is about to be issued for a table, no table later in
\* TABLES_TO_DROP (one that has not been dropped yet) is declared in
\* FK_DEPENDENCIES to hold a foreign key against it.
C4_DependencySafeOrder ==
    pc = "drop" =>
        \A j \in (Len(dropRan) + 2)..Len(TABLES_TO_DROP) :
            TABLES_TO_DROP[Len(dropRan) + 1] \notin References(TABLES_TO_DROP[j])

\* C5 as stated: the guard returns True exactly when every table has no
\* last-activity value or one strictly older than 365 days before now.
C5_ProceedIffStrictlyOlder ==
    tables_activity # "none" =>
        (tables_activity = "True" <=>
            \A t \in Tables :
                lastActivity[t] = <<>> \/ lastActivity[t][1] < Now - 365)

\* C5 as amended: the guard returns True exactly when every table has no
\* last-activity value or one not later than 365 days before now, and False
\* otherwise.
C5_ProceedIffNotLater ==
    tables_activity # "none" =>
        (tables_activity = "True" <=>
            \A t \in Tables :
                lastActivity[t] = <<>> \/ lastActivity[t][1] <= Now - 365)

\* the guard let through a database with an absent table and one exactly 365 days old
C5_Witness ==
    /\ tables_activity = "True"
    /\ \E t \in Tables : lastActivity[t] = <<>>
    /\ \E t \in Tables : lastActivity[t] = <<Now - 365>>

\* C6: in a real run, a delete call that failed with ClientError is logged for its
\* row, the loop moves past that row, every later row the loop has gone past has had
\* its verify delete issued (and its download delete when that verify delete
\* returned), only an exception that is no ClientError ends the run abnormally, and
\* the function returns only after the last row.
C6_FailureDoesNotStopLaterRows ==
    (script = "controller" /\ ~dry_run) =>
        /\ \A k \in 1..Len(s3calls) :
              s3calls[k].result = "ClientError" =>
                  /\ \E e \in 1..Len(errorLog) : errorLog[e] = s3calls[k].rec
                  /\ ci > s3calls[k].rec
                  /\ \A j \in (s3calls[k].rec + 1)..Len(certificates) :
                        (j < ci) =>
                            /\ Len(CallsFor(j)) >= 1
                            /\ CallsFor(j)[1].result = "ok" => Len(CallsFor(j)) = 2
        /\ pc = "crashed" => s3calls[Len(s3calls)].result = "raised"
        /\ pc = "done" => ci = Len(certificates) + 1

\* a finished run whose first row failed and whose last row was deleted
C6_Witness ==
    /\ pc = "done"
    /\ Len(certificates) = MaxCerts
    /\ errorLog = <<1>>
    /\ Len(CallsFor(MaxCerts)) = 2
    /\ CallsFor(MaxCerts)[2].result = "ok"

\* C7 as stated: in a real run that has returned, both keys of every row have had
\* a delete_object call issued.
C7_BothKeysAlways ==
    (script = "controller" /\ ~dry_run /\ pc = "done") =>
        \A j \in 1..Len(certificates) :
            /\ \E k \in 1..Len(s3calls) :
                  s3calls[k].rec = j /\ s3calls[k].Key = verify_key(certificates[j])
            /\ \E k \in 1..Len(s3calls) :
                  s3calls[k].rec = j /\ s3calls[k].Key = download_key(certificates[j])

\* C7 as amended: in a real run that has returned, every row has had a delete_object
\* call issued for its verify key against verify.edx.org, and one for its download
\* key exactly when the verify delete of that row did not fail; what happened to the
\* calls of other rows does not matter.
C7_DownloadOnlyAfterVerify ==
    (script = "controller" /\ ~dry_run /\ pc = "done") =>
        \A j \in 1..Len(certificates) :
            LET calls == CallsFor(j)
            IN  /\ Len(calls) >= 1
                /\ calls[1].Bucket = "verify.edx.org"
                /\ calls[1].Key = verify_key(certificates[j])
                /\ IF calls[1].result = "ok"
                   THEN /\ Len(calls) = 2
                        /\ calls[2].Bucket = "verify.edx.org"
                        /\ calls[2].Key = download_key(certificates[j])
                   ELSE Len(calls) = 1

\* a finished run with one row whose verify delete failed and one row deleted whole
C7_Witness ==
    /\ pc = "done"
    /\ ~dry_run
    /\ \E j \in 1..Len(certificates) :
          /\ Len(CallsFor(j)) = 1
          /\ CallsFor(j)[1].result = "ClientError"
    /\ \E j \in 1..Len(certificates) :
          /\ Len(CallsFor(j)) = 2
          /\ CallsFor(j)[2].result = "ok"

\* C8: every delete_object call and every dry-run line of a row with verify UUID V
\* and download UUID D names cert/V first and downloads/D/Certificate.pdf second, in
\* the bucket verify.edx.org, and nothing else; a row done without failure has both.
C8_KeysFromUuids ==
    \A j \in 1..Len(certificates) :
        LET V == certificates[j][6]
            D == certificates[j][5]
            calls == CallsFor(j)
            lines == DryLinesFor(j)
        IN  /\ Len(calls) <= 2
            /\ \A k \in 1..Len(calls) : calls[k].Bucket = "verify.edx.org"
            /\ Len(calls) >= 1 => calls[1].Key = ExpectedVerifyKey(V)
            /\ Len(calls) = 2 => calls[2].Key = ExpectedDownloadKey(D)
            /\ (~dry_run /\ j < ci /\ \A e \in 1..Len(errorLog) : errorLog[e] # j) =>
                  Len(calls) = 2
            /\ (dry_run /\ j < ci) =>
                  lines = << [rec |-> j, Key |-> ExpectedVerifyKey(V)],
                             [rec |-> j, Key |-> ExpectedDownloadKey(D)] >>
            /\ (~dry_run \/ j >= ci) => lines = <<>>

\* a row whose two UUIDs differ has had both objects deleted
C8_Witness ==
    \E j \in 1..Len(certificates) :
        /\ certificates[j][6] = "a"
        /\ certificates[j][5] = "b"
        /\ Len(CallsFor(j)) = 2
        /\ CallsFor(j)[2].result = "ok"

\* C9: the success line is logged only after the guard returned True, the
\* foreign-key step returned for every pair of all 7 mapped tables, drop_table
\* returned for all 10 tables once each in list order, nothing raised and the
\* connection was closed; never after a skip or an error.
C9_SuccessOnlyAfterEverything ==
    loggedSuccess =>
        /\ tables_activity = "True"
        /\ fkRan = FKPairs
        /\ Cardinality({fkRan[k][1] : k \in 1..Len(fkRan)}) = 7
        /\ dropRan = TABLES_TO_DROP
        /\ Len(dropRan) = 10
        /\ Cardinality(Range(dropRan)) = 10
        /\ ~dry_run => nDrop = 10
        /\ connection = "closed"
        /\ ~loggedError
        /\ blockedBy = "none"

\* a real run that logged the success line
C9_Witness ==
    /\ loggedSuccess
    /\ ~dry_run
    /\ nDrop = Len(TABLES_TO_DROP)

\* C10: a delete_object call makes at most 5 attempts: while it is retrying it has
\* made fewer than 5, each further attempt counts, it surfaces ClientError exactly
\* after the 5th failed attempt, and it returns as soon as an attempt succeeds.
C10_AtMostMaxTries ==
    /\ [](s3calls # <<>> =>
            /\ tries >= 1
            /\ tries <= 5
            /\ s3calls[Len(s3calls)].result = "pending" => tries < 5
            /\ s3calls[Len(s3calls)].result = "ClientError" => tries = 5)
    /\ [][(s3calls # <<>> /\ s3calls[Len(s3calls)].result = "pending") =>
            /\ Len(s3calls') = Len(s3calls)
            /\ tries' = tries + 1
            /\ s3calls'[Len(s3calls)].result = "ClientError" => tries' = 5]_vars

\* a call that failed on every one of its attempts has surfaced ClientError
C10_Witness ==
    /\ s3calls # <<>>
    /\ s3calls[Len(s3calls)].result = "ClientError"
    /\ tries = MAX_TRIES

====
